---------------------------- MODULE Spec2Model ----------------------------
(***************************************************************************)
(* The editor loop of src/src/editor.rs: Editor::run, refresh_screen,      *)
(* process_keypress, move_cursor and scroll, over a document whose rows    *)
(* are represented by their render width (Row::len).                       *)
(***************************************************************************)
EXTENDS Integers, Sequences, FiniteSets

VARIABLES
    document,         \* Editor.document: the sequence of row widths (Row::len() of each row)
    terminal,         \* Editor.terminal.size(): [width, height]
    cursor_position,  \* Editor.cursor_position: [x, y]
    offset,           \* Editor.offset: [x, y]
    should_quit,      \* Editor.should_quit
    theme,            \* the theme the highlighter was last built with
    pc,               \* the position of Editor::run in its loop
    frame,            \* what the last refresh_screen emitted (the set of its parts)
    frames,           \* number of refresh_screen calls that emitted a frame
    keys,             \* number of key events Terminal::read_key returned
    pressed_key,      \* the key the last process_keypress read
    args,             \* the arguments Editor::default was handed
    open_result,      \* what Document::open returned: <<"Ok", rows>>, <<"Err">>, <<>> if not called
    file_name,        \* Editor.document.file_name: <<name>>, or <<>> for None
    status_message,   \* Editor.status_message.text
    raw_mode,         \* the terminal is in the raw mode Terminal::default put it in
    io_error,         \* the terminal call that returned an error: "none", "flush", "read_key"
    before            \* KeySpec, ScrollSpec: cursor_position and offset when the last operation began

vars == <<document, terminal, cursor_position, offset, should_quit, theme, pc,
          frame, frames, keys, pressed_key, args, open_result, file_name,
          status_message, raw_mode, io_error, before>>

---------------------------------------------------------------------------
\* Bounds of the model.

\* rows of an enumerated document
MaxRows == 2
\* render width of a row of an enumerated document
MaxWidth == 2
\* terminal width and height (0 is a size Terminal::size can report)
MaxTerm == 2
\* key events read in one run
MaxKeys == 4
\* cursor and offset coordinates handed to scroll in ScrollSpec
MaxCoord == 4

---------------------------------------------------------------------------
\* Inputs.

RECURSIVE SeqsUpTo(_, _)
SeqsUpTo(S, n) ==
    IF n = 0 THEN {<<>>}
    ELSE LET shorter == SeqsUpTo(S, n - 1)
         IN  shorter \cup {Append(s, w) : s \in {t \in shorter : Len(t) = n - 1}, w \in S}

\* the document of the spec's scenario: three rows of widths 5, 0 and 10
ScenarioDocument == <<5, 0, 10>>

Documents == SeqsUpTo(0..MaxWidth, MaxRows) \cup {ScenarioDocument}

TerminalSizes == [width : 0..MaxTerm, height : 0..MaxTerm]

NavigationKeys == {"Up", "Down", "Left", "Right", "PageUp", "PageDown", "Home", "End"}

\* "Other" stands for every key event that no arm of process_keypress names
Keys == NavigationKeys \cup {"Ctrl_q", "Ctrl_t", "Other"}

Origin == [x |-> 0, y |-> 0]

---------------------------------------------------------------------------
\* Pure functions.

\* usize::saturating_sub
saturating_sub(a, b) == IF a > b THEN a - b ELSE 0

\* usize::saturating_add; no value of the model comes near usize::MAX
saturating_add(a, b) == a + b

\* Document::len
document_len(doc) == Len(doc)

\* Document::row: Some(row) as <<row>>, None as <<>>
document_row(doc, index) == IF index < Len(doc) THEN <<doc[index + 1]>> ELSE <<>>

\* if let Some(row) = self.document.row(y) { row.len() } else { 0 }
row_width(doc, y) ==
    LET row == document_row(doc, y)
    IN  IF row # <<>> THEN row[1] ELSE 0

\* faulty variant: Down without its test y < height
move_cursor_match_down_unguarded(key, cur, doc) ==
    LET height == document_len(doc)
        width  == row_width(doc, cur.y)
    IN  [y |-> CASE key = "Up"       -> saturating_sub(cur.y, 1)
                 [] key = "Down"     -> saturating_add(cur.y, 1)
                 [] key = "PageUp"   -> 0
                 [] key = "PageDown" -> height
                 [] OTHER            -> cur.y,
         x |-> CASE key = "Left"     -> saturating_sub(cur.x, 1)
                 [] key = "Right"    -> IF cur.x < width THEN saturating_add(cur.x, 1) ELSE cur.x
                 [] key = "Home"     -> 0
                 [] key = "End"      -> width
                 [] OTHER            -> cur.x]

\* faulty variant: Left with a plain subtraction
move_cursor_match_left_wraps(key, cur, doc) ==
    LET height == document_len(doc)
        width  == row_width(doc, cur.y)
    IN  [y |-> CASE key = "Up"       -> saturating_sub(cur.y, 1)
                 [] key = "Down"     -> IF cur.y < height THEN saturating_add(cur.y, 1) ELSE cur.y
                 [] key = "PageUp"   -> 0
                 [] key = "PageDown" -> height
                 [] OTHER            -> cur.y,
         x |-> CASE key = "Left"     -> cur.x - 1
                 [] key = "Right"    -> IF cur.x < width THEN saturating_add(cur.x, 1) ELSE cur.x
                 [] key = "Home"     -> 0
                 [] key = "End"      -> width
                 [] OTHER            -> cur.x]

\* faulty variant: PageDown to the last row, not past it
move_cursor_match_page_to_last_row(key, cur, doc) ==
    LET height == document_len(doc)
        width  == row_width(doc, cur.y)
    IN  [y |-> CASE key = "Up"       -> saturating_sub(cur.y, 1)
                 [] key = "Down"     -> IF cur.y < height THEN saturating_add(cur.y, 1) ELSE cur.y
                 [] key = "PageUp"   -> 0
                 [] key = "PageDown" -> saturating_sub(height, 1)
                 [] OTHER            -> cur.y,
         x |-> CASE key = "Left"     -> saturating_sub(cur.x, 1)
                 [] key = "Right"    -> IF cur.x < width THEN saturating_add(cur.x, 1) ELSE cur.x
                 [] key = "Home"     -> 0
                 [] key = "End"      -> width
                 [] OTHER            -> cur.x]

\* Editor::move_cursor: the match on the key, applied to the cursor's x and y
move_cursor_match(key, cur, doc) ==
    LET height == document_len(doc)
        width  == row_width(doc, cur.y)
    IN  [y |-> CASE key = "Up"       -> saturating_sub(cur.y, 1)
                 [] key = "Down"     -> IF cur.y < height THEN saturating_add(cur.y, 1) ELSE cur.y
                 [] key = "PageUp"   -> 0
                 [] key = "PageDown" -> height
                 [] OTHER            -> cur.y,
         x |-> CASE key = "Left"     -> saturating_sub(cur.x, 1)
                 [] key = "Right"    -> IF cur.x < width THEN saturating_add(cur.x, 1) ELSE cur.x
                 [] key = "Home"     -> 0
                 [] key = "End"      -> width
                 [] OTHER            -> cur.x]

\* faulty variant: no clamp of x to the new row's width
move_cursor_no_reclamp(key, cur, doc) == move_cursor_match(key, cur, doc)

\* Editor::move_cursor
move_cursor(key, cur, doc) ==
    LET moved == move_cursor_match(key, cur, doc)
        width == row_width(doc, moved.y)
    IN  [x |-> IF moved.x > width THEN width ELSE moved.x, y |-> moved.y]

\* faulty variant: the offset of a cursor past the window is one short
scroll_off_by_one(cur, off, size) ==
    [x |-> IF cur.x < off.x THEN cur.x
           ELSE IF cur.x >= saturating_add(off.x, size.width)
                THEN saturating_sub(cur.x, size.width)
                ELSE off.x,
     y |-> IF cur.y < off.y THEN cur.y
           ELSE IF cur.y >= saturating_add(off.y, size.height)
                THEN saturating_sub(cur.y, size.height)
                ELSE off.y]

\* faulty variant: the offset follows the cursor one cell a call
scroll_one_step(cur, off, size) ==
    [x |-> IF cur.x < off.x THEN saturating_sub(off.x, 1)
           ELSE IF cur.x >= saturating_add(off.x, size.width)
                THEN saturating_add(off.x, 1)
                ELSE off.x,
     y |-> IF cur.y < off.y THEN saturating_sub(off.y, 1)
           ELSE IF cur.y >= saturating_add(off.y, size.height)
                THEN saturating_add(off.y, 1)
                ELSE off.y]

\* faulty variant: a cursor past the window becomes the window's first cell
scroll_cursor_to_top(cur, off, size) ==
    [x |-> IF cur.x < off.x THEN cur.x
           ELSE IF cur.x >= saturating_add(off.x, size.width)
                THEN cur.x
                ELSE off.x,
     y |-> IF cur.y < off.y THEN cur.y
           ELSE IF cur.y >= saturating_add(off.y, size.height)
                THEN cur.y
                ELSE off.y]

\* Editor::scroll
scroll(cur, off, size) ==
    [x |-> IF cur.x < off.x THEN cur.x
           ELSE IF cur.x >= saturating_add(off.x, size.width)
                THEN saturating_add(saturating_sub(cur.x, size.width), 1)
                ELSE off.x,
     y |-> IF cur.y < off.y THEN cur.y
           ELSE IF cur.y >= saturating_add(off.y, size.height)
                THEN saturating_add(saturating_sub(cur.y, size.height), 1)
                ELSE off.y]

\* the Position refresh_screen hands to Terminal::cursor_position
screen_cursor(cur, off) ==
    [x |-> saturating_sub(cur.x, off.x), y |-> saturating_sub(cur.y, off.y)]

\* Document::is_empty
document_is_empty(doc) == Len(doc) = 0

\* faulty variant: the rows drawn start at the first row, whatever the offset
draw_rows_ignores_offset(doc, off, size) ==
    [terminal_row \in 1..size.height |->
        IF document_row(doc, terminal_row - 1) # <<>>
        THEN <<"row", terminal_row - 1>>
        ELSE IF document_is_empty(doc) /\ terminal_row - 1 = size.height \div 3
             THEN <<"welcome">>
             ELSE <<"~">>]

\* faulty variant: the banner is drawn whether the document is empty or not
draw_rows_banner_always(doc, off, size) ==
    [terminal_row \in 1..size.height |->
        IF document_row(doc, (terminal_row - 1) + off.y) # <<>>
        THEN <<"row", (terminal_row - 1) + off.y>>
        ELSE IF terminal_row - 1 = size.height \div 3
             THEN <<"welcome">>
             ELSE <<"~">>]

\* Editor::draw_rows: the line emitted for each terminal row 0..height-1 (the
\* sequence's index is terminal_row + 1): <<"row", i>> is draw_row of row i
draw_rows(doc, off, size) ==
    [terminal_row \in 1..size.height |->
        IF document_row(doc, (terminal_row - 1) + off.y) # <<>>
        THEN <<"row", (terminal_row - 1) + off.y>>
        ELSE IF document_is_empty(doc) /\ terminal_row - 1 = size.height \div 3
             THEN <<"welcome">>
             ELSE <<"~">>]

\* what refresh_screen emits in its two branches
FarewellFrame == {"clear_screen", "goodbye"}
RunningFrame  == {"rows", "status_bar", "message_bar", "cursor"}

---------------------------------------------------------------------------
\* The run loop.

\* the argument lists of the program: its name, and a path or none
ArgLists == {<<"editore">>, <<"editore", "file.rs">>}

\* what Document::open can return: the rows of the file, or an error
OpenResults == {<<"Err">>} \cup {<<"Ok", rows>> : rows \in Documents}

HelpMessage == <<"HELP: Ctrl-Q = quit">>

\* format!("ERR: Could not open file: {}", file_name)
ErrMessage(path) == <<"ERR: Could not open file: ", path>>

\* Document::default: no rows, no file name
document_default == [rows |-> <<>>, file_name |-> <<>>]

\* Document::open(path) when it returns Ok: the rows read, named by the path
document_opened(path, rows) == [rows |-> rows, file_name |-> <<path>>]

\* faulty variant: a file that cannot be opened ends the editor at once
default_quits_on_error(a, opened) ==
    LET failed == Len(a) > 1 /\ opened[1] # "Ok"
        doc == IF Len(a) > 1 /\ opened[1] = "Ok"
               THEN document_opened(a[2], opened[2])
               ELSE document_default
    IN  [should_quit     |-> failed,
         cursor_position |-> [x |-> 0, y |-> 0],
         document        |-> doc,
         offset          |-> Origin,
         status_message  |-> IF failed THEN ErrMessage(a[2]) ELSE HelpMessage]

\* Editor::default: the fields of the Editor built from the arguments, `opened`
\* being what Document::open returns for the path
default(a, opened) ==
    LET failed == Len(a) > 1 /\ opened[1] # "Ok"
        doc == IF Len(a) > 1 /\ opened[1] = "Ok"
               THEN document_opened(a[2], opened[2])
               ELSE document_default
    IN  [should_quit     |-> FALSE,
         cursor_position |-> [x |-> 0, y |-> 0],
         document        |-> doc,
         offset          |-> Origin,
         status_message  |-> IF failed THEN ErrMessage(a[2]) ELSE HelpMessage]

\* the Editor main builds, in a terminal put in raw mode, before run
Constructed ==
    \E a \in ArgLists, opened \in OpenResults :
        LET editor == default(a, opened)
        IN  /\ args = a
            /\ open_result = IF Len(a) > 1 THEN opened ELSE <<>>
            /\ document = editor.document.rows
            /\ file_name = editor.document.file_name
            /\ status_message = editor.status_message
            /\ cursor_position = editor.cursor_position
            /\ offset = editor.offset
            /\ should_quit = editor.should_quit
            /\ terminal \in TerminalSizes
            /\ raw_mode = TRUE
            /\ io_error = "none"
            /\ theme = "base16-ocean.dark"
            /\ frame = {}
            /\ frames = 0
            /\ keys = 0
            /\ pressed_key = "none"
            /\ before = [cursor_position |-> Origin, offset |-> Origin]

\* main and Editor::default
Init ==
    /\ Constructed
    /\ pc = "refresh_screen"

\* faulty variant: die ends the process where it stands, nothing is dropped
die_without_unwinding(error) ==
    /\ io_error' = error
    /\ pc' = "died"
    /\ raw_mode' = raw_mode

\* die: its panic! unwinds run and main, which drops main's Editor and the
\* Terminal it owns
die(error) ==
    /\ io_error' = error
    /\ pc' = "died"
    /\ raw_mode' = FALSE

\* faulty variant: the frame is drawn without looking at should_quit
RefreshScreen_always_draws(flush_ok) ==
    /\ pc = "refresh_screen"
    /\ frame' = RunningFrame
    /\ frames' = frames + 1
    /\ IF flush_ok
       THEN pc' = "check_quit" /\ UNCHANGED <<raw_mode, io_error>>
       ELSE die("flush")
    /\ UNCHANGED <<document, file_name, status_message, args, open_result, terminal,
                   cursor_position, offset, should_quit, theme,
                   keys, pressed_key, before>>

\* Editor::refresh_screen and run's die on its error
RefreshScreen(flush_ok) ==
    /\ pc = "refresh_screen"
    /\ frame' = IF should_quit THEN FarewellFrame ELSE RunningFrame
    /\ frames' = frames + 1
    /\ IF flush_ok
       THEN pc' = "check_quit" /\ UNCHANGED <<raw_mode, io_error>>
       ELSE die("flush")
    /\ UNCHANGED <<document, file_name, status_message, args, open_result, terminal,
                   cursor_position, offset, should_quit, theme,
                   keys, pressed_key, before>>

\* if self.should_quit { break; }
CheckQuit ==
    /\ pc = "check_quit"
    /\ pc' = IF should_quit THEN "returned" ELSE "process_keypress"
    /\ UNCHANGED <<document, file_name, status_message, args, open_result, terminal,
                   raw_mode, io_error, cursor_position, offset, should_quit, theme,
                   frame, frames, keys, pressed_key, before>>

\* faulty variant: every Ctrl key named in the match sets should_quit
process_keypress_any_ctrl_quits(key) ==
    /\ pressed_key' = key
    /\ should_quit' = IF key \in {"Ctrl_q", "Ctrl_t"} THEN TRUE ELSE should_quit
    /\ theme' = theme
    /\ cursor_position' = IF key \in NavigationKeys
                          THEN move_cursor(key, cursor_position, document)
                          ELSE cursor_position
    /\ offset' = scroll(cursor_position', offset, terminal)

\* the match of Editor::process_keypress on the key read, and its call of scroll
process_keypress(key) ==
    /\ pressed_key' = key
    /\ should_quit' = IF key = "Ctrl_q" THEN TRUE ELSE should_quit
    /\ theme' = IF key = "Ctrl_t" THEN "InspiredGitHub" ELSE theme
    /\ cursor_position' = IF key \in NavigationKeys
                          THEN move_cursor(key, cursor_position, document)
                          ELSE cursor_position
    /\ offset' = scroll(cursor_position', offset, terminal)

\* faulty variant: the next key is read before the state is rendered
ProcessKeypress_reads_again(key) ==
    /\ pc = "process_keypress"
    /\ keys < MaxKeys
    /\ keys' = keys + 1
    /\ process_keypress(key)
    /\ pc' = "process_keypress"
    /\ UNCHANGED <<document, file_name, status_message, args, open_result, terminal,
                   raw_mode, io_error, frame, frames, before>>

\* faulty variant: a key with no arm of its own deletes the document's last row
ProcessKeypress_edits_document(key) ==
    /\ pc = "process_keypress"
    /\ keys < MaxKeys
    /\ keys' = keys + 1
    /\ process_keypress(key)
    /\ pc' = "refresh_screen"
    /\ document' = IF key = "Other" /\ document # <<>>
                   THEN SubSeq(document, 1, Len(document) - 1)
                   ELSE document
    /\ UNCHANGED <<file_name, status_message, args, open_result, terminal,
                   raw_mode, io_error, frame, frames, before>>

\* Editor::process_keypress when Terminal::read_key returns Ok(key)
ProcessKeypress(key) ==
    /\ pc = "process_keypress"
    /\ keys < MaxKeys
    /\ keys' = keys + 1
    /\ process_keypress(key)
    /\ pc' = "refresh_screen"
    /\ UNCHANGED <<document, file_name, status_message, args, open_result, terminal,
                   raw_mode, io_error, frame, frames, before>>

\* faulty variant: the error of read_key is dropped and the loop goes on
ReadKeyFails_ignored ==
    /\ pc = "process_keypress"
    /\ io_error' = "read_key"
    /\ pc' = "refresh_screen"
    /\ UNCHANGED <<document, file_name, status_message, args, open_result, terminal,
                   raw_mode, cursor_position, offset, should_quit, theme,
                   frame, frames, keys, pressed_key, before>>

\* Editor::process_keypress when Terminal::read_key returns Err, and run's die
ReadKeyFails ==
    /\ pc = "process_keypress"
    /\ die("read_key")
    /\ UNCHANGED <<document, file_name, status_message, args, open_result, terminal,
                   cursor_position, offset, should_quit, theme,
                   frame, frames, keys, pressed_key, before>>

\* main: run has returned, the temporary Editor is dropped, and its Terminal with it
DropEditor ==
    /\ pc = "returned"
    /\ pc' = "exited"
    /\ raw_mode' = FALSE
    /\ UNCHANGED <<document, file_name, status_message, args, open_result, terminal,
                   io_error, cursor_position, offset, should_quit, theme,
                   frame, frames, keys, pressed_key, before>>

Next ==
    \/ \E flush_ok \in BOOLEAN : RefreshScreen(flush_ok)
    \/ CheckQuit
    \/ \E key \in Keys : ProcessKeypress(key)
    \/ ReadKeyFails
    \/ DropEditor

Spec == Init /\ [][Next]_vars

---------------------------------------------------------------------------
\* Key events of any number, one after the other: the loop of Editor::run seen
\* at process_keypress only, with the state each key found kept in `before`.

KeyInit ==
    /\ Constructed
    /\ pc = "process_keypress"

\* one more key read and handled, while the loop has not been told to quit
Keypress(key) ==
    /\ pc = "process_keypress"
    /\ ~should_quit
    /\ before' = [cursor_position |-> cursor_position, offset |-> offset]
    /\ process_keypress(key)
    /\ UNCHANGED <<document, file_name, status_message, args, open_result, terminal,
                   raw_mode, io_error, pc, frame, frames, keys>>

KeyNext == \E key \in Keys : Keypress(key)

KeySpec == KeyInit /\ [][KeyNext]_vars

---------------------------------------------------------------------------
\* Editor::scroll as a function of any cursor, prior offset and terminal size.

Positions == [x : 0..MaxCoord, y : 0..MaxCoord]

ScrollInit ==
    /\ document = <<>>
    /\ terminal \in TerminalSizes
    /\ cursor_position \in Positions
    /\ offset \in Positions
    /\ before = [cursor_position |-> cursor_position, offset |-> offset]
    /\ should_quit = FALSE
    /\ theme = "base16-ocean.dark"
    /\ pc = "scroll"
    /\ args = <<"editore">>
    /\ open_result = <<>>
    /\ file_name = <<>>
    /\ status_message = HelpMessage
    /\ raw_mode = TRUE
    /\ io_error = "none"
    /\ frame = {}
    /\ frames = 0
    /\ keys = 0
    /\ pressed_key = "none"

\* a first call of scroll
ScrollCall ==
    /\ pc = "scroll"
    /\ before' = [cursor_position |-> cursor_position, offset |-> offset]
    /\ offset' = scroll(cursor_position, offset, terminal)
    /\ pc' = "scroll_again"
    /\ UNCHANGED <<document, file_name, status_message, args, open_result, terminal,
                   raw_mode, io_error, cursor_position, should_quit, theme,
                   frame, frames, keys, pressed_key>>

\* a second call of scroll, the cursor unchanged
ScrollAgain ==
    /\ pc = "scroll_again"
    /\ offset' = scroll(cursor_position, offset, terminal)
    /\ pc' = "scroll_done"
    /\ UNCHANGED <<document, file_name, status_message, args, open_result, terminal,
                   raw_mode, io_error, cursor_position, should_quit, theme,
                   frame, frames, keys, pressed_key, before>>

ScrollNext == ScrollCall \/ ScrollAgain

ScrollSpec == ScrollInit /\ [][ScrollNext]_vars

---------------------------------------------------------------------------
\* The properties of the editor, as the specification states them.

Min(a, b) == IF a < b THEN a ELSE b
Max(a, b) == IF a > b THEN a ELSE b
Abs(a) == IF a < 0 THEN 0 - a ELSE a

\* width(row(y)) of the specification: 0 for the row past the last one
Width(y) == IF y \in 0..(Len(document) - 1) THEN document[y + 1] ELSE 0

\* coordinate c lies in the window [o, o + size)
InWindow(c, o, size) == o <= c /\ c < o + size

TerminalNotEmpty == terminal.width >= 1 /\ terminal.height >= 1

\* C1 (KeySpec): after any sequence of key events from cursor (0,0), on any
\* document, 0 <= y <= document.len() and 0 <= x <= width(row(y)), the width
\* of the row at y = document.len() being 0.
C1_CursorBounds ==
    /\ cursor_position.y \in 0..Len(document)
    /\ cursor_position.x \in 0..Width(cursor_position.y)

\* a Down that found the cursor right of the next row's end and pulled it back
C1_Witness ==
    /\ pressed_key = "Down"
    /\ cursor_position.y = before.cursor_position.y + 1
    /\ before.cursor_position.x > Width(cursor_position.y)
    /\ cursor_position.x = Width(cursor_position.y)

\* the frame last emitted shows the current cursor and offset of a running editor
RunningFrameIsCurrent == frame = RunningFrame /\ frames = keys + 1

\* C2 (Spec): with a terminal of width >= 1 and height >= 1, every frame
\* rendered while Running (the first and the one after each key) has the
\* cursor inside [offset, offset + size) on both axes, so that the screen
\* cursor refresh_screen computes lies in the terminal and its saturating
\* subtraction does not saturate.
C2_CursorVisibleInFrame ==
    (TerminalNotEmpty /\ RunningFrameIsCurrent) =>
        /\ InWindow(cursor_position.x, offset.x, terminal.width)
        /\ InWindow(cursor_position.y, offset.y, terminal.height)
        /\ screen_cursor(cursor_position, offset).x = cursor_position.x - offset.x
        /\ screen_cursor(cursor_position, offset).y = cursor_position.y - offset.y
        /\ screen_cursor(cursor_position, offset).x \in 0..(terminal.width - 1)
        /\ screen_cursor(cursor_position, offset).y \in 0..(terminal.height - 1)

\* a frame of a view scrolled on both axes
C2_Witness ==
    /\ TerminalNotEmpty
    /\ RunningFrameIsCurrent
    /\ pc = "check_quit"
    /\ keys >= 2
    /\ offset.x > 0
    /\ offset.y > 0

\* the offset the specification gives for one axis
ScrollRule(c, o, size) ==
    IF InWindow(c, o, size) THEN o
    ELSE IF c < o THEN c
    ELSE c - size + 1

\* new shows c and no offset that shows c is nearer to old
NearestVisible(c, old, new, size) ==
    /\ InWindow(c, new, size)
    /\ \A o \in 0..(MaxCoord + 1) :
           InWindow(c, o, size) => Abs(new - old) <= Abs(o - old)

\* the scenario: width 80, offset.x 0, cursor.x 85 gives offset.x 6
ScrollScenario ==
    scroll([x |-> 85, y |-> 0], Origin, [width |-> 80, height |-> 24]) = [x |-> 6, y |-> 0]

\* each axis of the offset follows the rule of the specification
ScrollFollowsRule ==
    /\ offset.x = ScrollRule(cursor_position.x, before.offset.x, terminal.width)
    /\ offset.y = ScrollRule(cursor_position.y, before.offset.y, terminal.height)

\* C3 as stated (ScrollSpec): a call of scroll leaves an axis of the offset
\* alone when the cursor is inside the window, sets it to the cursor when the
\* cursor is before the window and to cursor - size + 1 when it is at or past
\* the window's end, and the result is the offset nearest to the old one that
\* makes the cursor visible.
C3_Original ==
    pc = "scroll_again" =>
        /\ ScrollFollowsRule
        /\ ScrollScenario
        /\ NearestVisible(cursor_position.x, before.offset.x, offset.x, terminal.width)
        /\ NearestVisible(cursor_position.y, before.offset.y, offset.y, terminal.height)

\* C3 amended (ScrollSpec): the rule holds for every size, and on an axis
\* whose terminal size is >= 1 the result is the offset nearest to the old
\* one that makes the cursor visible (no offset does when the size is 0).
C3_MinimalScroll ==
    pc = "scroll_again" =>
        /\ ScrollFollowsRule
        /\ ScrollScenario
        /\ terminal.width >= 1 =>
               NearestVisible(cursor_position.x, before.offset.x, offset.x, terminal.width)
        /\ terminal.height >= 1 =>
               NearestVisible(cursor_position.y, before.offset.y, offset.y, terminal.height)

\* a call that found the cursor past the window on x and before it on y
C3_Witness ==
    /\ pc = "scroll_again"
    /\ terminal = [width |-> 2, height |-> 2]
    /\ before.offset = [x |-> 0, y |-> 3]
    /\ cursor_position = [x |-> 3, y |-> 1]
    /\ offset = [x |-> 2, y |-> 1]

\* C4 as stated (ScrollSpec): for every cursor, prior offset and terminal
\* size, a second call of scroll with the cursor unchanged leaves the offset
\* of the first call as it is.
C4_Original == [][pc = "scroll_again" => offset' = offset]_vars

\* C4 amended (ScrollSpec): a second call of scroll with the cursor unchanged
\* leaves each axis of the offset whose terminal size is >= 1 as the first
\* call set it.
C4_ScrollIdempotent ==
    [][pc = "scroll_again" =>
          /\ terminal.width >= 1 => offset'.x = offset.x
          /\ terminal.height >= 1 => offset'.y = offset.y]_vars

\* two calls, the first of which moved the offset on both axes
C4_Witness ==
    /\ pc = "scroll_done"
    /\ TerminalNotEmpty
    /\ offset.x # before.offset.x
    /\ offset.y # before.offset.y

\* the key last handled by Keypress found the cursor at (x, y)
Found(key, x, y) ==
    /\ pressed_key = key
    /\ before.cursor_position = [x |-> x, y |-> y]

\* the scenario: rows of widths 5, 0 and 10, cursor (5,0), Down twice gives (0,2)
VerticalScenario ==
    move_cursor("Down",
                move_cursor("Down", [x |-> 5, y |-> 0], ScenarioDocument),
                ScenarioDocument) = [x |-> 0, y |-> 2]

\* C5 (KeySpec): from any cursor in bounds, Up gives y' = max(y - 1, 0) and
\* Down gives y' = min(y + 1, document.len()), both with
\* x' = min(x, width(row(y'))); the column is not remembered. In the scenario
\* two Downs from (5,0) give (0,2), and Right then moves x up to 10 and no
\* further.
C5_VerticalMoves ==
    /\ pressed_key = "Up" =>
           /\ cursor_position.y = Max(before.cursor_position.y - 1, 0)
           /\ cursor_position.x = Min(before.cursor_position.x, Width(cursor_position.y))
    /\ pressed_key = "Down" =>
           /\ cursor_position.y = Min(before.cursor_position.y + 1, Len(document))
           /\ cursor_position.x = Min(before.cursor_position.x, Width(cursor_position.y))
    /\ VerticalScenario
    /\ (document = ScenarioDocument /\ pressed_key = "Right" /\ before.cursor_position.y = 2) =>
           cursor_position = [x |-> Min(before.cursor_position.x + 1, 10), y |-> 2]

\* the scenario's first Down: from (5,0) to the empty row, x pulled to 0
C5_Witness ==
    /\ document = ScenarioDocument
    /\ Found("Down", 5, 0)
    /\ cursor_position = [x |-> 0, y |-> 1]

\* C6 (KeySpec): from any cursor in bounds, Left, Right, Home and End leave y
\* as it is and set x to max(x - 1, 0), min(x + 1, width(row(y))), 0 and
\* width(row(y)); on the row y = document.len() all four keep x = 0.
C6_HorizontalMoves ==
    /\ pressed_key \in {"Left", "Right", "Home", "End"} =>
           /\ cursor_position.y = before.cursor_position.y
           /\ before.cursor_position.y = Len(document) => cursor_position.x = 0
    /\ pressed_key = "Left" =>
           cursor_position.x = Max(before.cursor_position.x - 1, 0)
    /\ pressed_key = "Right" =>
           cursor_position.x = Min(before.cursor_position.x + 1, Width(before.cursor_position.y))
    /\ pressed_key = "Home" => cursor_position.x = 0
    /\ pressed_key = "End" => cursor_position.x = Width(before.cursor_position.y)

\* a Right at the end of a row that is not empty: the cursor stays
C6_Witness ==
    /\ pressed_key = "Right"
    /\ before.cursor_position.x = Width(before.cursor_position.y)
    /\ before.cursor_position.x > 0
    /\ cursor_position = before.cursor_position

\* C7 (KeySpec): whatever the terminal height, PageUp gives y = 0 with
\* x = min(x, width(row(0))) and PageDown gives y = document.len() with x = 0.
C7_PageMoves ==
    /\ pressed_key = "PageUp" =>
           cursor_position = [x |-> Min(before.cursor_position.x, Width(0)), y |-> 0]
    /\ pressed_key = "PageDown" =>
           cursor_position = [x |-> 0, y |-> Len(document)]

\* a PageDown from the end of the first row, over more rows than the terminal shows
C7_Witness ==
    /\ pressed_key = "PageDown"
    /\ before.cursor_position.y = 0
    /\ before.cursor_position.x > 0
    /\ terminal.height >= 1
    /\ Len(document) > terminal.height + 1
    /\ cursor_position = [x |-> 0, y |-> Len(document)]

\* a step of process_keypress that read a key
KeyRead == pc = "process_keypress" /\ keys' = keys + 1

\* should_quit is set by reading Ctrl-q and by nothing else, and run returns
\* only with should_quit set
QuitOnlyByCtrlQ ==
    /\ [](pc = "returned" => should_quit)
    /\ [](should_quit => pressed_key = "Ctrl_q")
    /\ [][should_quit' # should_quit =>
             (KeyRead /\ pressed_key' = "Ctrl_q" /\ should_quit')]_vars

\* after Ctrl-q one frame more, the farewell frame, and nothing else: no key
\* is read and the cursor stays
OneFarewellFrame ==
    /\ []((should_quit /\ pc = "refresh_screen") => frames = keys)
    /\ []((should_quit /\ pc # "refresh_screen") =>
             (frames = keys + 1 /\ frame = FarewellFrame))
    /\ [][(KeyRead /\ pressed_key' = "Ctrl_q") =>
             (frames' = keys' /\ pc' = "refresh_screen"
              /\ cursor_position' = cursor_position)]_vars
    /\ [][should_quit =>
             (keys' = keys /\ cursor_position' = cursor_position
              /\ pressed_key' = pressed_key /\ should_quit')]_vars

\* C8 as stated (Spec): the loop leaves Running only when Ctrl-q is read;
\* after that exactly one more frame is produced, the clear-screen and
\* farewell frame, no key is read, the cursor stays, and run returns to its
\* caller without calling die.
C8_Original ==
    /\ QuitOnlyByCtrlQ
    /\ OneFarewellFrame
    /\ [](should_quit => pc # "died")
    /\ [][(should_quit /\ pc # "returned") => pc' \in {"check_quit", "returned"}]_vars

\* C8 amended (Spec): as stated, but run returns to its caller without
\* calling die only when the flush of the farewell frame succeeds; when that
\* flush fails run calls die, after the farewell frame and nothing else.
C8_QuitProtocol ==
    /\ QuitOnlyByCtrlQ
    /\ OneFarewellFrame
    /\ [][(should_quit /\ pc' = "died") => pc = "refresh_screen"]_vars
    /\ [][(should_quit /\ pc = "check_quit") => pc' = "returned"]_vars
    /\ [][(should_quit /\ pc = "refresh_screen") => pc' \in {"check_quit", "died"}]_vars

\* run has returned after keys that ended with Ctrl-q, the farewell frame the last
C8_Witness ==
    /\ pc = "returned"
    /\ keys = 3
    /\ frames = 4
    /\ frame = FarewellFrame
    /\ cursor_position # Origin

\* the steps of run follow one another in the order of its loop
LoopOrder ==
    [][/\ pc = "refresh_screen" =>
             (pc' \in {"check_quit", "died"} /\ frames' = frames + 1 /\ keys' = keys)
       /\ pc = "check_quit" =>
             (pc' \in {"process_keypress", "returned"} /\ frames' = frames /\ keys' = keys)
       /\ pc = "process_keypress" =>
             \/ pc' = "died" /\ frames' = frames /\ keys' = keys
                /\ cursor_position' = cursor_position /\ offset' = offset
             \/ pc' = "refresh_screen" /\ frames' = frames /\ keys' = keys + 1
                /\ offset' = scroll(cursor_position', offset, terminal)
       /\ pc = "returned" => (pc' = "exited" /\ frames' = frames /\ keys' = keys)
       /\ pc \in {"died", "exited"} => FALSE]_vars

\* C9 (Spec): an iteration renders, reads one key, updates the cursor and
\* recomputes the viewport, in this order: the first frame comes before any
\* key, a render follows every key, and when run returns the frames are one
\* more than the keys.
C9_LoopStepOrder ==
    /\ LoopOrder
    /\ [](pc = "refresh_screen" => frames = keys)
    /\ [](pc \in {"check_quit", "process_keypress", "returned", "exited"} => frames = keys + 1)
    /\ [](keys >= 1 => frames >= 1)

\* run has returned after three keys and four frames, the view scrolled
C9_Witness ==
    /\ pc = "returned"
    /\ keys = 3
    /\ frames = keys + 1
    /\ offset # Origin

\* C10 (Spec): with a terminal of width and height >= 1, a key that is not
\* Ctrl-q, Ctrl-t or one of the eight navigation keys changes none of the
\* cursor, the offset, the quit flag and the document and raises no error;
\* Ctrl-t changes none of them either, only the theme.
C10_UnrecognizedKeysNoOp ==
    [][(KeyRead /\ TerminalNotEmpty) =>
          /\ pressed_key' = "Other" =>
                 /\ UNCHANGED <<cursor_position, offset, should_quit, document, theme>>
                 /\ pc' = "refresh_screen"
          /\ pressed_key' = "Ctrl_t" =>
                 /\ UNCHANGED <<cursor_position, offset, should_quit, document>>
                 /\ theme' = "InspiredGitHub"
                 /\ pc' = "refresh_screen"]_vars

\* another key read in a view that was scrolled and whose theme was changed
C10_Witness ==
    /\ TerminalNotEmpty
    /\ pressed_key = "Other"
    /\ keys = 3
    /\ pc = "refresh_screen"
    /\ theme = "InspiredGitHub"
    /\ offset # Origin

\* the lines draw_rows emitted in the frame last rendered, while that frame is current
rendered_rows == draw_rows(document, offset, terminal)

\* the scenario: an empty document in a terminal of 80 by 24 has the banner on
\* screen row 8 and '~' on every other row
BannerScenario ==
    LET lines == draw_rows(<<>>, Origin, [width |-> 80, height |-> 24])
    IN  /\ Len(lines) = 24
        /\ \A r \in 0..23 : lines[r + 1] = IF r = 8 THEN <<"welcome">> ELSE <<"~">>

\* C11 (Spec): in every frame rendered while Running each screen row r in
\* [0, terminal_height) gets exactly one line: the document row at
\* offset.y + r if there is one, else the welcome banner if the document is
\* empty and r = terminal_height / 3, else '~'. The banner never appears
\* when the document is not empty.
C11_RowClassification ==
    RunningFrameIsCurrent =>
        /\ Len(rendered_rows) = terminal.height
        /\ DOMAIN rendered_rows = 1..terminal.height
        /\ \A r \in 0..(terminal.height - 1) :
               /\ offset.y + r < Len(document) => rendered_rows[r + 1] = <<"row", offset.y + r>>
               /\ (offset.y + r >= Len(document) /\ Len(document) = 0 /\ r = terminal.height \div 3)
                      => rendered_rows[r + 1] = <<"welcome">>
               /\ (offset.y + r >= Len(document) /\ ~(Len(document) = 0 /\ r = terminal.height \div 3))
                      => rendered_rows[r + 1] = <<"~">>
               /\ Len(document) > 0 => rendered_rows[r + 1] # <<"welcome">>
        /\ BannerScenario

\* a frame of a scrolled view: the last row of the document, then a placeholder
C11_Witness ==
    /\ RunningFrameIsCurrent
    /\ offset.y = 1
    /\ rendered_rows = <<<<"row", 1>>, <<"~">>>>

\* C12 (Spec): when the flush of a frame or the read of a key returns an
\* error, run aborts through die: no frame is rendered and no key is read
\* after it, and a failed read changes neither the cursor nor the offset.
C12_TerminalErrorIsFatal ==
    /\ [](io_error # "none" <=> pc = "died")
    /\ [][pc = "died" => FALSE]_vars
    /\ [][io_error' # io_error =>
             /\ io_error = "none"
             /\ io_error' = "flush" <=> pc = "refresh_screen"
             /\ io_error' = "read_key" <=> pc = "process_keypress"
             /\ io_error' = "flush" => frames' = frames + 1
             /\ io_error' = "read_key" => frames' = frames
             /\ UNCHANGED <<cursor_position, offset, keys, pressed_key, should_quit>>]_vars

\* a read that failed after two keys had moved the cursor and the view
C12_Witness ==
    /\ pc = "died"
    /\ io_error = "read_key"
    /\ keys = 2
    /\ cursor_position # Origin
    /\ offset # Origin
    /\ frames = 3

\* the Editor as Editor::default returned it, before run has done anything
JustConstructed == pc = "refresh_screen" /\ frames = 0

\* C13 (Spec): a path whose Document::open fails gives a running editor
\* (should_quit false) with an empty unnamed document, cursor (0,0), offset
\* (0,0) and the status message "ERR: Could not open file: <path>"; no path
\* gives an empty document and the help text; a path that opens gives the
\* loaded document and the help text.
C13_LoadFailureRecovered ==
    /\ (Len(args) > 1 /\ open_result = <<"Err">>) =>
           /\ document = <<>>
           /\ file_name = <<>>
           /\ status_message = <<"ERR: Could not open file: ", args[2]>>
           /\ JustConstructed =>
                  (~should_quit /\ cursor_position = [x |-> 0, y |-> 0]
                   /\ offset = [x |-> 0, y |-> 0])
    /\ Len(args) <= 1 =>
           /\ open_result = <<>>
           /\ document = <<>>
           /\ status_message = <<"HELP: Ctrl-Q = quit">>
    /\ (Len(args) > 1 /\ open_result # <<"Err">>) =>
           /\ open_result[1] = "Ok"
           /\ document = open_result[2]
           /\ status_message = <<"HELP: Ctrl-Q = quit">>
    /\ JustConstructed => ~should_quit

\* the first frame of an editor whose file could not be opened, a key awaited
C13_Witness ==
    /\ args = <<"editore", "file.rs">>
    /\ open_result = <<"Err">>
    /\ status_message = <<"ERR: Could not open file: ", "file.rs">>
    /\ document = <<>>
    /\ frame = RunningFrame
    /\ frames = 1
    /\ pc = "process_keypress"

\* the run loop has not ended: a frame is being rendered, the quit flag is
\* being tested, a key is awaited, or run has returned into main's statement
LoopRunning == pc \in {"refresh_screen", "check_quit", "process_keypress"}

LargestRowWidth ==
    IF document = <<>> THEN 0
    ELSE CHOOSE w \in {document[i] : i \in 1..Len(document)} :
             \A i \in 1..Len(document) : document[i] <= w

\* C15 (KeySpec): with a terminal of width and height >= 1, after any
\* sequence of keys offset.y <= max(0, document.len() - height + 1) and
\* offset.x <= max(0, W - width + 1), W the largest row width; a document
\* with fewer rows than the terminal height keeps offset.y = 0.
C15_ViewportWithinContent ==
    TerminalNotEmpty =>
        /\ offset.y <= Max(0, Len(document) - terminal.height + 1)
        /\ offset.x <= Max(0, LargestRowWidth - terminal.width + 1)
        /\ Len(document) < terminal.height => offset.y = 0

\* both bounds met above 0: the view was at its rightmost column before the
\* last key, and that key took it to its lowest row
C15_Witness ==
    /\ TerminalNotEmpty
    /\ before.offset.x = LargestRowWidth - terminal.width + 1
    /\ before.offset.x > 0
    /\ offset.y = Len(document) - terminal.height + 1
    /\ offset.y > 0
    /\ pressed_key = "Down"

\* C16 (Spec): with a document of zero rows the cursor is (0,0) after any
\* sequence of keys and, for a terminal of width and height >= 1, the offset
\* is (0,0) and every frame rendered while Running has the welcome banner on
\* screen row terminal_height / 3, and on that row only.
C16_EmptyDocumentPinsCursor ==
    document = <<>> =>
        /\ cursor_position = [x |-> 0, y |-> 0]
        /\ TerminalNotEmpty =>
               /\ offset = [x |-> 0, y |-> 0]
               /\ screen_cursor(cursor_position, offset) = [x |-> 0, y |-> 0]
               /\ RunningFrameIsCurrent =>
                      \A r \in 0..(terminal.height - 1) :
                          rendered_rows[r + 1] = <<"welcome">> <=> r = terminal.height \div 3

\* the fourth frame of an empty document, after three keys the last of which
\* asked for a page down
C16_Witness ==
    /\ document = <<>>
    /\ TerminalNotEmpty
    /\ terminal.height = 2
    /\ keys = 3
    /\ pressed_key = "PageDown"
    /\ frames = 4
    /\ frame = RunningFrame
    /\ rendered_rows = <<(<<"welcome">>), (<<"~">>)>>

\* the cursor and offset after n presses of key, each followed by the loop's
\* scroll, from the cursor and offset of view
RECURSIVE Presses(_, _, _)
Presses(key, n, view) ==
    IF n = 0 THEN view
    ELSE LET cur == move_cursor(key, view.cursor_position, document)
         IN  Presses(key, n - 1, [cursor_position |-> cur,
                                  offset |-> scroll(cur, view.offset, terminal)])

\* the cursor and offset of the current state
View == [cursor_position |-> cursor_position, offset |-> offset]

\* C17 (KeySpec): with a terminal of width and height >= 1, PageUp and then
\* Home, each followed by the loop's scroll, leave cursor (0,0) and offset
\* (0,0) from every state the keys before have reached; and every position
\* (x, y) with y <= document.len() and x <= the width of row y is where y
\* presses of Down followed by x presses of Right take the cursor from (0,0).
C17_ReturnToOrigin ==
    /\ [][(TerminalNotEmpty /\ pressed_key = "PageUp" /\ pressed_key' = "Home") =>
             (cursor_position' = [x |-> 0, y |-> 0] /\ offset' = [x |-> 0, y |-> 0])]_vars
    /\ [](TerminalNotEmpty =>
             Presses("Home", 1, Presses("PageUp", 1, View))
                 = [cursor_position |-> [x |-> 0, y |-> 0], offset |-> [x |-> 0, y |-> 0]])
    /\ [](TerminalNotEmpty =>
             \A y \in 0..Len(document) : \A x \in 0..Width(y) :
                 Presses("Right", x,
                         Presses("Down", y, [cursor_position |-> Origin, offset |-> Origin])
                        ).cursor_position = [x |-> x, y |-> y])

\* between the two keys: PageUp has taken a view scrolled both ways to row 0,
\* the view is still scrolled sideways, and Home brings it to the origin
C17_Witness ==
    /\ TerminalNotEmpty
    /\ pressed_key = "PageUp"
    /\ before.offset.y > 0
    /\ before.offset.x > 0
    /\ cursor_position.y = 0
    /\ offset = [x |-> before.offset.x, y |-> 0]
    /\ Presses("Home", 1, View) = [cursor_position |-> Origin, offset |-> Origin]

\* C18 (Spec): no step of the run changes the document's rows (their
\* number and widths) or its file name, nor the terminal size or the status
\* text; a key that is read changes at most the cursor, the offset, the
\* quit flag and the theme, and each only as its arm of the match allows.
C18_DocumentReadOnly ==
    /\ [][/\ document' = document
           /\ Len(document') = Len(document)
           /\ \A y \in 0..MaxRows : row_width(document', y) = row_width(document, y)
           /\ file_name' = file_name
           /\ terminal' = terminal
           /\ status_message' = status_message]_vars
    /\ [][KeyRead =>
             /\ should_quit' # should_quit => pressed_key' = "Ctrl_q"
             /\ theme' # theme => pressed_key' = "Ctrl_t"
             /\ cursor_position' # cursor_position => pressed_key' \in NavigationKeys]_vars
    /\ [][~KeyRead => UNCHANGED <<cursor_position, offset, should_quit, theme>>]_vars

\* four keys read, the cursor, the offset and the theme changed, the quit
\* flag set, and the document still the two rows that were loaded
C18_Witness ==
    /\ keys = 4
    /\ pressed_key = "Ctrl_q"
    /\ should_quit
    /\ theme = "InspiredGitHub"
    /\ cursor_position # Origin
    /\ offset # Origin
    /\ open_result = <<"Ok", <<2, 1>>>>
    /\ document = <<2, 1>>
    /\ file_name = <<"file.rs">>

===========================================================================
